---- MODULE Spec2Model ----
(***************************************************************************)
(* Model of robot_framework/process.py: one invocation of process() on one *)
(* queue element.  A run parses the work item, authenticates, downloads    *)
(* the workbook into the working directory, refreshes it in a subprocess   *)
(* guarded by a timeout, uploads it back (optionally archiving a monthly   *)
(* copy) and removes the local copy.                                       *)
(*                                                                         *)
(* Python strings are sequences of one-character strings, so that split,   *)
(* join, lower, capitalize and the substring test are computed as the code *)
(* computes them.                                                          *)
(***************************************************************************)
EXTENDS Integers, Sequences, FiniteSets, TLC

\* ------------------------------------------------------------------ bounds

\* Longest FolderPath, in characters, a run is started with.
MaxPathLen == 7

\* First year of the clock instants the archive step may read.
FirstYear == 2025

\* ---------------------------------------------------------------- strings

LowerCase ==
  <<"a", "b", "c", "d", "e", "f", "g", "h", "i", "j", "k", "l", "m",
    "n", "o", "p", "q", "r", "s", "t", "u", "v", "w", "x", "y", "z">>

UpperCase ==
  <<"A", "B", "C", "D", "E", "F", "G", "H", "I", "J", "K", "L", "M",
    "N", "O", "P", "Q", "R", "S", "T", "U", "V", "W", "X", "Y", "Z">>

ToLower(c) ==
  IF \E i \in 1..26 : UpperCase[i] = c
  THEN LowerCase[CHOOSE i \in 1..26 : UpperCase[i] = c]
  ELSE c

ToUpper(c) ==
  IF \E i \in 1..26 : LowerCase[i] = c
  THEN UpperCase[CHOOSE i \in 1..26 : LowerCase[i] = c]
  ELSE c

\* str.lower()
Lower(s) == [i \in 1..Len(s) |-> ToLower(s[i])]

\* str.capitalize(): first character upper-cased, the rest lower-cased
Capitalize(s) == [i \in 1..Len(s) |-> IF i = 1 THEN ToUpper(s[i]) ELSE ToLower(s[i])]

\* needle in hay (substring test)
Contains(hay, needle) ==
  \E i \in 0..(Len(hay) - Len(needle)) :
    \A j \in 1..Len(needle) : hay[i + j] = needle[j]

\* s.split('/'): one more part than there are '/' in s; parts may be empty
RECURSIVE Split(_)
Split(s) ==
  IF s = <<>> THEN << <<>> >>
  ELSE LET rest == Split(Tail(s))
       IN  IF Head(s) = "/"
           THEN << <<>> >> \o rest
           ELSE << <<Head(s)>> \o Head(rest) >> \o Tail(rest)

\* '/'.join(parts)
RECURSIVE Join(_)
Join(parts) ==
  IF parts = <<>> THEN <<>>
  ELSE IF Len(parts) = 1 THEN parts[1]
  ELSE parts[1] \o <<"/">> \o Join(Tail(parts))

\* str(n) for a natural number n
RECURSIVE Digits(_)
Digits(n) ==
  LET d == <<"0", "1", "2", "3", "4", "5", "6", "7", "8", "9">>
  IN  IF n < 10 THEN <<d[n + 1]>> ELSE Digits(n \div 10) \o <<d[(n % 10) + 1]>>

\* ------------------------------------------------- the split of FolderPath

\* path_parts[0]
DocumentLibrary(path_parts) == path_parts[1]

\* '/'.join(path_parts[1:]) if len(path_parts) > 2 else '': the slice keeps
\* the file name
FolderPathKeepingFileName(path_parts) ==
  IF Len(path_parts) > 2
  THEN Join(SubSeq(path_parts, 2, Len(path_parts)))
  ELSE <<>>

\* '/'.join(path_parts[1:-1]) if len(path_parts) > 2 else ''
FolderPathOf(path_parts) ==
  IF Len(path_parts) > 2
  THEN Join(SubSeq(path_parts, 2, Len(path_parts) - 1))
  ELSE <<>>

\* path_parts[-1]
FileName(path_parts) == path_parts[Len(path_parts)]

\* the three locals both download and upload compute from the url
SplitUrl(url) ==
  LET path_parts == Split(url)
  IN  [DOCUMENT_LIBRARY |-> DocumentLibrary(path_parts),
       FOLDER_PATH      |-> FolderPathOf(path_parts),
       file_name        |-> FileName(path_parts)]

\* f"{DOCUMENT_LIBRARY}/{FOLDER_PATH}" if FOLDER_PATH else f"{DOCUMENT_LIBRARY}"
ServerRelativeFolder(parts) ==
  IF parts.FOLDER_PATH # <<>>
  THEN parts.DOCUMENT_LIBRARY \o <<"/">> \o parts.FOLDER_PATH
  ELSE parts.DOCUMENT_LIBRARY

\* the directory under ~/Documents that download creates (and never writes to)
DocumentsFolder(parts) ==
  IF parts.FOLDER_PATH # <<>> THEN parts.FOLDER_PATH ELSE parts.DOCUMENT_LIBRARY

\* ------------------------------------------------------------- the inputs

PathChars == {"a", "/"}

RECURSIVE StringsUpTo(_)
StringsUpTo(n) ==
  IF n = 0 THEN {<<>>}
  ELSE LET shorter == StringsUpTo(n - 1)
       IN  shorter \cup {Append(s, c) : s \in {t \in shorter : Len(t) = n - 1}, c \in PathChars}

\* the FolderPath values of the queue element
FolderPaths == StringsUpTo(MaxPathLen)

\* data.get("CustomFunction"): None when the key is absent
None == "<None>"
CustomFunctions == {None, "MonthlyFolder", "monthlyfolder", "YearlyFolder"}

\* ------------------------------------------------------- messages and logs

\* str(e) of the TimeoutError the future raises when the timeout=60 of the
\* decorator elapses
TaskTimeoutTexts ==
  { <<"T", "a", "s", "k", " ", "t", "i", "m", "e", "o", "u", "t">>,
    <<"T", "a", "s", "k", " ", "T", "i", "m", "e", "o", "u", "t">> }

\* str(e) of exceptions refresh_excel_file itself can raise in the subprocess
RefreshErrorTexts ==
  { <<"Q", "u", "e", "r", "y", " ", "T", "i", "m", "e", "o", "u", "t">>,
    <<"F", "i", "l", "e", " ", "l", "o", "c", "k", "e", "d">>,
    <<"T", "i", "m", "e", "d", " ", "o", "u", "t">> }

\* the literal "timeout" of line 45
TimeoutWord == <<"t", "i", "m", "e", "o", "u", "t">>

\* str(e)
Str(e) == e.text

\* "timeout" in str(e).lower(), without the lower()
IsTimeoutTextCaseSensitive(e) == Contains(Str(e), TimeoutWord)

\* "timeout" in str(e).lower()
IsTimeoutText(e) == Contains(Lower(Str(e)), TimeoutWord)

\* RuntimeError("refresh_excel_file did not complete within the allowed time.")
RefreshTimeoutError ==
  [type |-> "RuntimeError",
   text |-> <<"refresh_excel_file did not complete within the allowed time.">>]

\* RuntimeError(f"Error in refresh_excel_file: {e}")
RefreshWrappedError(e) ==
  [type |-> "RuntimeError", text |-> <<"Error in refresh_excel_file: ">> \o Str(e)]

NoError == [type |-> "none", text |-> <<>>]

Exc(type, text) == [type |-> type, text |-> <<text>>]

Info(text) == [level |-> "info", text |-> text]
Error(text) == [level |-> "error", text |-> text]
Trace(text) == [level |-> "trace", text |-> text]

\* line 70, with "[Ok]" put in front
AuthenticatedTextOk == <<"[Ok]", "Authenticated successfully. Site Title: ">>

\* line 70
AuthenticatedText == <<"Authenticated successfully. Site Title: ">>

\* line 117
DownloadedText == <<"[Ok]", " file has been downloaded into: ">>

\* line 152
RefreshedText == <<"[Ok]", " Excel file has been refreshed and saved.">>

\* lines 181 and 200
UploadedText == <<"[Ok]", " file has been uploaded to: ">>

\* line 184
CustomFunctionText == <<"Custom function: ">>

\* ---------------------------------------------------------------- the clock

\* strftime("%B") under the da_DK locale that line 192 sets
DanishMonths ==
  << <<"j", "a", "n", "u", "a", "r">>,
     <<"f", "e", "b", "r", "u", "a", "r">>,
     <<"m", "a", "r", "t", "s">>,
     <<"a", "p", "r", "i", "l">>,
     <<"m", "a", "j">>,
     <<"j", "u", "n", "i">>,
     <<"j", "u", "l", "i">>,
     <<"a", "u", "g", "u", "s", "t">>,
     <<"s", "e", "p", "t", "e", "m", "b", "e", "r">>,
     <<"o", "k", "t", "o", "b", "e", "r">>,
     <<"n", "o", "v", "e", "m", "b", "e", "r">>,
     <<"d", "e", "c", "e", "m", "b", "e", "r">> >>

\* the instants datetime.datetime.now() may return
Instants == {[year |-> FirstYear, month |-> m] : m \in {5, 12}}
              \cup {[year |-> FirstYear + 1, month |-> 1]}

\* the month after instant t: the clock may step between the two now() calls
NextMonth(t) ==
  IF t.month = 12 THEN [year |-> t.year + 1, month |-> 1]
  ELSE [year |-> t.year, month |-> t.month + 1]

\* datetime.datetime.now().strftime("%B").capitalize()
CurrentMonth(t) == Capitalize(DanishMonths[t.month])

\* str(datetime.datetime.now().year)
CurrentYear(t) == Digits(t.year)

HistorikUrl == <<"H", "i", "s", "t", "o", "r", "i", "k">>

\* f'DKPlan_{current_month}_{current_year}.xlsx'
ArchiveFileName(current_month, current_year) ==
  <<"D", "K", "P", "l", "a", "n", "_">> \o current_month \o <<"_">> \o current_year
    \o <<".", "x", "l", "s", "x">>

\* ----------------------------------------------------------- the poll loop

wait_time == 60
check_interval == 1

\* lines 109-111: the value of elapsed_time when the loop ends; the file
\* system is not written by anyone else while the loop sleeps
RECURSIVE PollLoop(_, _)
PollLoop(exists, elapsed_time) ==
  IF ~exists /\ elapsed_time < wait_time
  THEN PollLoop(exists, elapsed_time + check_interval)
  ELSE elapsed_time

\* ---------------------------------------------------------------- the state

VARIABLES
  pc,               \* where process() stands
  folder_path,      \* data.get("FolderPath")
  custom_function,  \* data.get("CustomFunction")
  local_file_path,  \* the local of process(): [bound, path]
  files,            \* the files of the working directory written by this run
  file_content,     \* what the scratch file holds
  dl,               \* the locals of download_file_from_sharepoint
  request,          \* how the download request of lines 97-101 ended
  documents_dirs,   \* the directories made under ~/Documents
  elapsed_time,     \* the local of the poll loop
  up,               \* the locals of upload_file_to_sharepoint
  worker,           \* the subprocess of refresh_excel_file_with_timeout
  future,           \* the future it returned: [state, exc]
  timed_out,        \* whether the timeout of the subprocess elapsed
  log,              \* the lines sent to orchestrator_connection
  uploads,          \* the upload_file calls the server answered
  created_folders,  \* the folders.add calls the server answered
  clock,            \* current_month and current_year as read
  err,              \* the exception being propagated
  failure,          \* the stage that failed first, and its exception
  events            \* the stages started, ended and failed, in order

vars ==
  <<pc, folder_path, custom_function, local_file_path, files, file_content, dl,
    request, documents_dirs, elapsed_time, up, worker, future, timed_out, log, uploads,
    created_folders, clock, err, failure, events>>

inputVars == <<folder_path, custom_function>>
diskVars == <<files, file_content, documents_dirs>>
downloadVars == <<dl, request, elapsed_time, local_file_path>>
refreshVars == <<worker, future, timed_out>>
remoteVars == <<uploads, created_folders, clock, up>>

NoParts == [DOCUMENT_LIBRARY |-> <<>>, FOLDER_PATH |-> <<>>, file_name |-> <<>>]
Unbound == [bound |-> FALSE, path |-> <<>>]
NoFuture == [state |-> "none", exc |-> NoError]
NoFailure == [stage |-> "none", exc |-> NoError]
NoClock == [current_month |-> <<>>, current_year |-> <<>>]

Init ==
  /\ pc = "start"
  /\ folder_path = <<>>
  /\ custom_function = None
  /\ local_file_path = Unbound
  /\ files = {}
  /\ file_content = "absent"
  /\ dl = NoParts
  /\ request = "none"
  /\ documents_dirs = {}
  /\ elapsed_time = 0
  /\ up = NoParts
  /\ worker = "none"
  /\ future = NoFuture
  /\ timed_out = FALSE
  /\ log = <<>>
  /\ uploads = <<>>
  /\ created_folders = <<>>
  /\ clock = NoClock
  /\ err = NoError
  /\ failure = NoFailure
  /\ events = <<>>

Started(stage) == <<stage, "start">>
Ended(stage) == <<stage, "ok">>
Failed(stage) == <<stage, "fail">>

\* an exception of `stage` raised outside the try of process(): it leaves
\* process() at once
RaiseOutsideTry(stage, e, evs) ==
  /\ pc' = "raised"
  /\ err' = e
  /\ failure' = [stage |-> stage, exc |-> e]
  /\ events' = events \o evs \o <<Failed(stage)>>

\* an exception of `stage` raised inside the try of lines 35-52: control goes
\* to the except clause of line 53
RaiseInsideTry(stage, e, evs) ==
  /\ pc' = "except"
  /\ err' = e
  /\ failure' = [stage |-> stage, exc |-> e]
  /\ events' = events \o evs \o <<Failed(stage)>>

\* ------------------------------------------------- parse and authenticate

\* lines 21-26
ParseWorkItem ==
  /\ pc = "start"
  /\ log' = Append(log, Trace(<<"Running process.">>))
  /\ \/ /\ \E fp \in FolderPaths, cf \in CustomFunctions :
             /\ folder_path' = fp
             /\ custom_function' = cf
          /\ pc' = "parsed"
          /\ events' = events \o <<Started("parse"), Ended("parse")>>
          /\ UNCHANGED <<err, failure>>
     \/ /\ RaiseOutsideTry("parse", Exc("JSONDecodeError", "Expecting value"),
                           <<Started("parse")>>)
        /\ UNCHANGED inputVars
  /\ UNCHANGED <<diskVars, downloadVars, refreshVars, remoteVars>>

\* lines 28-30
GetCredential ==
  /\ pc = "parsed"
  /\ \/ /\ pc' = "credential"
        /\ events' = events \o <<Started("credential"), Ended("credential")>>
        /\ UNCHANGED <<err, failure>>
     \/ RaiseOutsideTry("credential", Exc("ValueError", "No credential named Robot365User"),
                        <<Started("credential")>>)
  /\ UNCHANGED <<inputVars, diskVars, downloadVars, refreshVars, remoteVars, log>>

\* lines 33 and 58-71
SharepointClient ==
  /\ pc = "credential"
  /\ \/ /\ pc' = "authenticated"
        /\ log' = Append(log, Info(AuthenticatedText))
        /\ events' = events \o <<Started("authenticate"), Ended("authenticate")>>
        /\ UNCHANGED <<err, failure>>
     \/ /\ RaiseOutsideTry("authenticate", Exc("ValueError", "authentication failed"),
                           <<Started("authenticate")>>)
        /\ UNCHANGED log
  /\ UNCHANGED <<inputVars, diskVars, downloadVars, refreshVars, remoteVars>>

\* ---------------------------------------------------------------- download

\* lines 80-96: split the url, make the Documents directory, open the
\* download path for writing, which creates the file, empty.  A url whose
\* last part is empty names the working directory itself, and open() raises.
DownloadOpen ==
  /\ pc = "authenticated"
  /\ LET parts == SplitUrl(folder_path)
     IN  /\ dl' = parts
         /\ documents_dirs' = documents_dirs \cup {DocumentsFolder(parts)}
         /\ IF parts.file_name = <<>>
            THEN /\ RaiseInsideTry("download", Exc("OSError", "Is a directory"),
                                   <<Started("download")>>)
                 /\ UNCHANGED <<files, file_content>>
            ELSE /\ files' = files \cup {parts.file_name}
                 /\ file_content' = "empty"
                 /\ pc' = "download_open"
                 /\ events' = Append(events, Started("download"))
                 /\ UNCHANGED <<err, failure>>
  /\ UNCHANGED <<inputVars, refreshVars, remoteVars, log, request, elapsed_time,
                 local_file_path>>

\* lines 97-101: the request writes the content, or returns having written
\* nothing, or raises; the with statement closes the file either way
DownloadRequest ==
  /\ pc = "download_open"
  /\ \/ /\ file_content' = "remote"
        /\ request' = "served"
        /\ pc' = "download_poll"
        /\ UNCHANGED <<err, failure, events>>
     \/ /\ request' = "nothing written"
        /\ pc' = "download_poll"
        /\ UNCHANGED <<file_content, err, failure, events>>
     \/ /\ request' = "raised"
        /\ RaiseInsideTry("download", Exc("ClientRequestException", "404 Not Found"), <<>>)
        /\ UNCHANGED file_content
  /\ UNCHANGED <<inputVars, files, documents_dirs, dl, elapsed_time, local_file_path,
                 refreshVars, remoteVars, log>>

\* lines 103-118, and the assignment of line 37
DownloadPoll ==
  /\ pc = "download_poll"
  /\ LET exists == dl.file_name \in files
     IN  /\ elapsed_time' = PollLoop(exists, 0)
         /\ IF ~exists
            THEN /\ RaiseInsideTry("download", Exc("FileNotFoundError", "File not found"), <<>>)
                 /\ UNCHANGED <<log, local_file_path>>
            ELSE /\ log' = Append(log, Info(DownloadedText))
                 /\ local_file_path' = [bound |-> TRUE, path |-> dl.file_name]
                 /\ pc' = "downloaded"
                 /\ events' = Append(events, Ended("download"))
                 /\ UNCHANGED <<err, failure>>
  /\ UNCHANGED <<inputVars, diskVars, dl, request, refreshVars, remoteVars>>

\* ----------------------------------------------------------------- refresh

\* line 40: the decorated call starts the subprocess and returns a future
StartRefresh ==
  /\ pc = "downloaded"
  /\ worker' = "running"
  /\ future' = [state |-> "pending", exc |-> NoError]
  /\ pc' = "waiting"
  /\ events' = Append(events, Started("refresh"))
  /\ UNCHANGED <<inputVars, diskVars, downloadVars, timed_out, remoteVars, log, err, failure>>

\* lines 121-152, in the subprocess: the workbook is refreshed and saved
WorkerRefreshes ==
  /\ worker = "running"
  /\ file_content' = IF file_content = "remote" THEN "refreshed" ELSE "refreshed from empty"
  /\ log' = Append(log, Info(RefreshedText))
  /\ worker' = "exited"
  /\ future' = [state |-> "result", exc |-> NoError]
  /\ UNCHANGED <<pc, inputVars, files, documents_dirs, downloadVars, timed_out, remoteVars,
                 err, failure, events>>

\* lines 121-152, in the subprocess: some call of refresh_excel_file raises
WorkerRaises ==
  /\ worker = "running"
  /\ \E text \in RefreshErrorTexts :
       future' = [state |-> "exception", exc |-> [type |-> "Exception", text |-> text]]
  /\ worker' = "exited"
  /\ UNCHANGED <<pc, inputVars, diskVars, downloadVars, timed_out, remoteVars, log,
                 err, failure, events>>

\* line 15: the subprocess has not returned when the timeout=60 of the
\* decorator elapses; it is stopped and the future raises TimeoutError
TimeoutElapses ==
  /\ worker = "running"
  /\ future.state = "pending"
  /\ timed_out' = TRUE
  /\ worker' = "killed"
  /\ \E text \in TaskTimeoutTexts :
       future' = [state |-> "exception", exc |-> [type |-> "TimeoutError", text |-> text]]
  /\ UNCHANGED <<pc, inputVars, diskVars, downloadVars, remoteVars, log,
                 err, failure, events>>

\* lines 42-50 with the two raise statements left out: the failure is logged
\* and process() goes on to the upload
FutureResultWithoutRaise ==
  /\ pc = "waiting"
  /\ future.state # "pending"
  /\ pc' = "refreshed"
  /\ IF future.state = "result"
     THEN /\ events' = Append(events, Ended("refresh"))
          /\ UNCHANGED log
     ELSE /\ log' = Append(log, Error(<<"An error occurred during refresh_excel_file execution: ">>
                                        \o Str(future.exc)))
          /\ events' = Append(events, Failed("refresh"))
  /\ UNCHANGED <<inputVars, diskVars, downloadVars, refreshVars, remoteVars, err, failure>>

\* lines 42-50: future.result() returns, or raises and the exception is
\* told apart by its text
FutureResult ==
  /\ pc = "waiting"
  /\ future.state # "pending"
  /\ IF future.state = "result"
     THEN /\ pc' = "refreshed"
          /\ events' = Append(events, Ended("refresh"))
          /\ UNCHANGED <<log, err, failure>>
     ELSE IF IsTimeoutText(future.exc)
     THEN /\ log' = Append(log, Error(<<"refresh_excel_file exceeded the timeout of 30 minutes.">>))
          /\ RaiseInsideTry("refresh", RefreshTimeoutError, <<>>)
     ELSE /\ log' = Append(log, Error(<<"An error occurred during refresh_excel_file execution: ">>
                                        \o Str(future.exc)))
          /\ RaiseInsideTry("refresh", RefreshWrappedError(future.exc), <<>>)
  /\ UNCHANGED <<inputVars, diskVars, downloadVars, refreshVars, remoteVars>>

\* ------------------------------------------------------------------ upload

\* custom_function == "MonthlyFolder", taken for any value that is given
IsGiven(cf) == cf # None

\* line 183: custom_function == "MonthlyFolder"
IsMonthlyFolder(cf) == cf = "MonthlyFolder"

\* lines 160-174: split the url again and resolve the target folder
UploadResolveFolder ==
  /\ pc = "refreshed"
  /\ up' = SplitUrl(folder_path)
  /\ \/ /\ pc' = "folder_resolved"
        /\ events' = Append(events, Started("upload"))
        /\ UNCHANGED <<err, failure>>
     \/ RaiseInsideTry("upload", Exc("ClientRequestException", "folder not found"),
                       <<Started("upload")>>)
  /\ UNCHANGED <<inputVars, diskVars, downloadVars, refreshVars, uploads, created_folders,
                 clock, log>>

\* lines 177-181: read the local file and upload it under file_name
UploadPrimary ==
  /\ pc = "folder_resolved"
  /\ \/ /\ local_file_path.path \in files
        /\ uploads' = Append(uploads, [root    |-> "web",
                                       folder  |-> ServerRelativeFolder(up),
                                       name    |-> up.file_name,
                                       content |-> file_content])
        /\ log' = Append(log, Info(UploadedText))
        /\ pc' = "uploaded"
        /\ events' = Append(events, Ended("upload"))
        /\ UNCHANGED <<err, failure>>
     \/ /\ RaiseInsideTry("upload",
                          IF local_file_path.path \in files
                          THEN Exc("ClientRequestException", "upload refused")
                          ELSE Exc("FileNotFoundError", "No such file"),
                          <<>>)
        /\ UNCHANGED <<uploads, log>>
  /\ UNCHANGED <<inputVars, diskVars, downloadVars, refreshVars, created_folders, clock, up>>

\* lines 183-190: the branch on custom_function, then the "Dokumenter"
\* library and its "Historik" folder are looked up
ArchiveLookup ==
  /\ pc = "uploaded"
  /\ IsMonthlyFolder(custom_function)
  /\ log' = Append(log, Info(CustomFunctionText))
  /\ \/ /\ pc' = "archive_parent"
        /\ events' = Append(events, Started("archive"))
        /\ UNCHANGED <<err, failure>>
     \/ RaiseInsideTry("archive", Exc("ClientRequestException", "Historik not found"),
                       <<Started("archive")>>)
  /\ UNCHANGED <<inputVars, diskVars, downloadVars, refreshVars, remoteVars>>

\* lines 192-196: set the locale, read the clock twice (the month, then the
\* year), add the year folder and the month folder beneath it
ArchiveFolders ==
  /\ pc = "archive_parent"
  /\ \/ /\ RaiseInsideTry("archive", Exc("locale.Error", "unsupported locale setting"), <<>>)
        /\ UNCHANGED <<clock, created_folders>>
     \/ \E t1 \in Instants :
        \E t2 \in {t1, NextMonth(t1)} :
          LET current_month == CurrentMonth(t1)
              current_year == CurrentYear(t2)
              year_folder == HistorikUrl \o <<"/">> \o current_year
              month_folder == year_folder \o <<"/">> \o current_month
          IN  /\ clock' = [current_month |-> current_month, current_year |-> current_year]
              /\ \/ /\ created_folders' = created_folders \o <<year_folder, month_folder>>
                    /\ pc' = "archive_folders"
                    /\ UNCHANGED <<err, failure, events>>
                 \/ /\ created_folders' = Append(created_folders, year_folder)
                    /\ RaiseInsideTry("archive",
                                      Exc("ClientRequestException", "month folder refused"), <<>>)
                 \/ /\ UNCHANGED created_folders
                    /\ RaiseInsideTry("archive",
                                      Exc("ClientRequestException", "year folder refused"), <<>>)
  /\ UNCHANGED <<inputVars, diskVars, downloadVars, refreshVars, uploads, up, log>>

\* lines 198-200: read the local file again and upload it into the month folder
ArchiveUpload ==
  /\ pc = "archive_folders"
  /\ \/ /\ local_file_path.path \in files
        /\ uploads' = Append(uploads,
             [root    |-> "Dokumenter",
              folder  |-> created_folders[Len(created_folders)],
              name    |-> ArchiveFileName(clock.current_month, clock.current_year),
              content |-> file_content])
        /\ log' = Append(log, Info(UploadedText))
        /\ pc' = "archived"
        /\ events' = Append(events, Ended("archive"))
        /\ UNCHANGED <<err, failure>>
     \/ /\ RaiseInsideTry("archive",
                          IF local_file_path.path \in files
                          THEN Exc("ClientRequestException", "upload refused")
                          ELSE Exc("FileNotFoundError", "No such file"),
                          <<>>)
        /\ UNCHANGED <<uploads, log>>
  /\ UNCHANGED <<inputVars, diskVars, downloadVars, refreshVars, created_folders, clock, up>>

\* the upload function returning without line 202
ReturnWithoutRemove ==
  /\ \/ pc = "archived"
     \/ pc = "uploaded" /\ ~IsMonthlyFolder(custom_function)
  /\ pc' = "done"
  /\ UNCHANGED <<inputVars, diskVars, downloadVars, refreshVars, remoteVars, log, err,
                 failure, events>>

\* line 202: os.remove(local_file_path), the last statement of the upload
RemoveLocal ==
  /\ \/ pc = "archived"
     \/ pc = "uploaded" /\ ~IsMonthlyFolder(custom_function)
  /\ IF local_file_path.path \in files
     THEN /\ files' = files \ {local_file_path.path}
          /\ file_content' = "absent"
          /\ pc' = "done"
          /\ events' = Append(events, Ended("remove"))
          /\ UNCHANGED <<err, failure>>
     ELSE /\ RaiseInsideTry("remove", Exc("FileNotFoundError", "No such file"), <<>>)
          /\ UNCHANGED <<files, file_content>>
  /\ UNCHANGED <<inputVars, documents_dirs, downloadVars, refreshVars, remoteVars, log>>

\* --------------------------------------------------------- the except clause

\* lines 53-56: os.remove(local_file_path), log_error(str(e)), raise e.
\* Reading local_file_path before line 37 has assigned it raises
\* UnboundLocalError, and os.remove of a missing file raises
\* FileNotFoundError: either replaces the exception being handled, and the
\* two statements after it are not run.
HandleException ==
  /\ pc = "except"
  /\ pc' = "raised"
  /\ IF ~local_file_path.bound
     THEN /\ err' = Exc("UnboundLocalError", "cannot access local variable 'local_file_path'")
          /\ events' = Append(events, Failed("cleanup"))
          /\ UNCHANGED <<files, file_content, log>>
     ELSE IF local_file_path.path \notin files
     THEN /\ err' = Exc("FileNotFoundError", "No such file")
          /\ events' = Append(events, Failed("cleanup"))
          /\ UNCHANGED <<files, file_content, log>>
     ELSE /\ files' = files \ {local_file_path.path}
          /\ file_content' = "absent"
          /\ log' = Append(log, Error(Str(err)))
          /\ events' = Append(events, Ended("cleanup"))
          /\ UNCHANGED err
  /\ UNCHANGED <<inputVars, documents_dirs, downloadVars, refreshVars, remoteVars, failure>>

\* ------------------------------------------------------- the specification

Next ==
  \/ ParseWorkItem
  \/ GetCredential
  \/ SharepointClient
  \/ DownloadOpen
  \/ DownloadRequest
  \/ DownloadPoll
  \/ StartRefresh
  \/ WorkerRefreshes
  \/ WorkerRaises
  \/ TimeoutElapses
  \/ FutureResult
  \/ UploadResolveFolder
  \/ UploadPrimary
  \/ ArchiveLookup
  \/ ArchiveFolders
  \/ ArchiveUpload
  \/ RemoveLocal
  \/ HandleException

Spec == Init /\ [][Next]_vars

\* ------------------------------------------------------------ the claims

Range(f) == {f[i] : i \in DOMAIN f}

Returned == pc = "done"
Raised == pc = "raised"

\* the positions of an event in events
Positions(e) == {i \in DOMAIN events : events[i] = e}

IsOkLine(line) == Len(line.text) > 0 /\ line.text[1] = "[Ok]"
IsInfoLine(line) == line.level = "info"
IsErrorLine(line) == line.level = "error"

NumSlashes(s) == Cardinality({i \in DOMAIN s : s[i] = "/"})

\* C1: at most one scratch file exists at any point of a run, and none is
\* left on disk when process() has returned or raised, whichever stage failed.
C1_NoScratchFileLeft ==
  /\ Cardinality(files) <= 1
  /\ (Returned \/ Raised) => files = {}

C3_StageFailureLoggedCleanedReraised ==
  (Raised /\ failure.stage \in {"download", "refresh", "upload", "archive"}) =>
    /\ err = failure.exc
    /\ \E line \in Range(log) : IsErrorLine(line) /\ line.text = Str(failure.exc)
    /\ files = {}
    /\ Positions(Failed("cleanup")) = {}

WellFormedPath ==
  /\ NumSlashes(folder_path) >= 1
  /\ ~(NumSlashes(folder_path) = 2 /\ Contains(folder_path, <<"/", "/">>))

C5_NoContentFailsAfterPolling ==
  (request = "nothing written" /\ pc # "download_poll") =>
    /\ elapsed_time = wait_time
    /\ failure.stage = "download"
    /\ failure.exc.type = "FileNotFoundError"
    /\ worker = "none"
    /\ uploads = <<>>

\* C6: the caller raises the timeout error only when the subprocess exceeded
\* its time limit; any other failure of the refresh is raised as the wrapped
\* error that carries the original message.
C6_TimeoutErrorOnlyAfterTimeout ==
  failure.stage = "refresh" =>
    IF timed_out
    THEN failure.exc = RefreshTimeoutError
    ELSE /\ failure.exc # RefreshTimeoutError
         /\ failure.exc = RefreshWrappedError(future.exc)

OkLines == SelectSeq(log, IsOkLine)
InfoLines == SelectSeq(log, IsInfoLine)

\* C7 as stated: a successful run with no CustomFunction logs exactly four
\* "[Ok]" lines (authenticated, downloaded, refreshed, uploaded, in that
\* order), no error line, makes no archive upload and deletes the local copy.
C7_FourOkMilestones ==
  (Returned /\ custom_function = None) =>
    /\ Len(OkLines) = 4
    /\ InfoLines = <<Info(AuthenticatedText), Info(DownloadedText), Info(RefreshedText),
                     Info(UploadedText)>>
    /\ \A line \in Range(log) : ~IsErrorLine(line)
    /\ Len(uploads) = 1
    /\ files = {}

\* C7 as amended: a successful run with no CustomFunction logs exactly four
\* info lines, in the order authenticated, downloaded, refreshed, uploaded;
\* the last three are its only "[Ok]" lines (the authentication line has no
\* "[Ok]"); it logs no error line, makes no archive upload and deletes the
\* local copy.
C7_FourMilestonesThreeOk ==
  (Returned /\ custom_function = None) =>
    /\ InfoLines = <<Info(AuthenticatedText), Info(DownloadedText), Info(RefreshedText),
                     Info(UploadedText)>>
    /\ OkLines = <<Info(DownloadedText), Info(RefreshedText), Info(UploadedText)>>
    /\ ~IsOkLine(InfoLines[1])
    /\ \A line \in Range(log) : ~IsErrorLine(line)
    /\ Len(uploads) = 1
    /\ uploads[1].root = "web"
    /\ created_folders = <<>>
    /\ files = {}

C7_Witness ==
  /\ Returned
  /\ custom_function = None
  /\ Len(log) = 5

\* every start of stage b comes after an end in success of stage a
StartsAfterSuccess(b, a) ==
  \A i \in Positions(Started(b)) : \E j \in Positions(Ended(a)) : j < i

\* C8: download starts only after authentication succeeded, the refresh
\* subprocess only after download returned a path, the primary upload only
\* after the refresh returned success, the archive only after the primary
\* upload succeeded; each stage is started at most once, and once a stage has
\* failed no stage is started.
C8_StageOrder ==
  /\ StartsAfterSuccess("credential", "parse")
  /\ StartsAfterSuccess("authenticate", "credential")
  /\ StartsAfterSuccess("download", "authenticate")
  /\ StartsAfterSuccess("refresh", "download")
  /\ StartsAfterSuccess("upload", "refresh")
  /\ StartsAfterSuccess("archive", "upload")
  /\ \A i, j \in DOMAIN events :
       (i < j /\ events[i][2] = "fail") => events[j][2] # "start"
  /\ \A i, j \in DOMAIN events :
       (events[i] = events[j] /\ events[i][2] = "start") => i = j
  /\ worker # "none" => local_file_path.bound
  /\ uploads # <<>> => (future.state = "result" /\ worker = "exited")
  /\ created_folders # <<>> => Len(uploads) >= 1
  /\ failure.stage # "none" => pc \in {"except", "raised"}

C8_WitnessArchiveFailed ==
  /\ Raised
  /\ failure.stage = "archive"
  /\ Len(uploads) = 1
  /\ Positions(Started("archive")) # {}

\* C9: in a run that returns, with or without the monthly archive, the
\* scratch file is deleted exactly once, after the last upload has read it
\* (every upload read a file that was there), and is absent at the return.
C9_DeletedOnceAfterUploads ==
  /\ \A i \in DOMAIN uploads : uploads[i].content \notin {"absent"}
  /\ Returned =>
       /\ files = {}
       /\ file_content = "absent"
       /\ Cardinality(Positions(Ended("remove"))) = 1
       /\ Positions(Ended("cleanup")) = {}
       /\ \A r \in Positions(Ended("remove")) :
            /\ \A u \in Positions(Ended("upload")) \cup Positions(Ended("archive")) : u < r
            /\ r = Len(events)
       /\ Len(uploads) >= 1

C9_WitnessMonthly ==
  /\ Returned
  /\ custom_function = "MonthlyFolder"
  /\ Len(uploads) = 2
  /\ uploads[2].content = "refreshed"
  /\ events[Len(events)] = Ended("remove")
  /\ files = {}

\* the split of url into library, joined subfolder chain and file name, as
\* C10 states it: the library and the file name hold no '/', and put back
\* together with the '/' between them the parts are the url
SplitAsClaimed(url, parts) ==
  LET k == NumSlashes(url) + 1
  IN  /\ NumSlashes(parts.DOCUMENT_LIBRARY) = 0
      /\ NumSlashes(parts.file_name) = 0
      /\ k = 1 => (parts.DOCUMENT_LIBRARY = url /\ parts.file_name = url)
      /\ k <= 2 => parts.FOLDER_PATH = <<>>
      /\ k = 2 => parts.DOCUMENT_LIBRARY \o <<"/">> \o parts.file_name = url
      /\ k > 2 =>
           /\ NumSlashes(parts.FOLDER_PATH) = k - 3
           /\ parts.DOCUMENT_LIBRARY \o <<"/">> \o parts.FOLDER_PATH \o <<"/">>
                \o parts.file_name = url

HasSplitForDownload == Positions(Started("download")) # {}
HasSplitForUpload == Positions(Started("upload")) # {}

\* C10 as stated: for every FolderPath of k >= 1 segments both splits give
\* the first segment, the segments between, and the last segment, and the
\* upload goes under the last segment into the FolderPath less its last
\* segment.
C10_SplitAndTargetEveryPath ==
  /\ HasSplitForDownload => SplitAsClaimed(folder_path, dl)
  /\ HasSplitForUpload => SplitAsClaimed(folder_path, up)
  /\ \A i \in DOMAIN uploads :
       uploads[i].root = "web" =>
         /\ NumSlashes(uploads[i].name) = 0
         /\ uploads[i].folder \o <<"/">> \o uploads[i].name = folder_path

\* C10 as amended: the split is as stated for every FolderPath of k >= 1
\* segments; the upload goes under the last segment into the FolderPath less
\* its last segment when k >= 2 and the path is not one of three segments
\* with an empty middle one.
C10_SplitAndTargetWellFormed ==
  /\ HasSplitForDownload => SplitAsClaimed(folder_path, dl)
  /\ HasSplitForUpload => SplitAsClaimed(folder_path, up)
  /\ \A i \in DOMAIN uploads :
       (uploads[i].root = "web" /\ WellFormedPath) =>
         /\ NumSlashes(uploads[i].name) = 0
         /\ uploads[i].folder \o <<"/">> \o uploads[i].name = folder_path

C10_Witness ==
  /\ Len(uploads) >= 1
  /\ NumSlashes(folder_path) = 3
  /\ up.FOLDER_PATH = <<"a", "/", "a">>
  /\ uploads[1].folder = <<"a", "/", "a", "/", "a">>

====
